---- MODULE Spec2Model ----
(***************************************************************************)
(* include-tailwind-build: BuildConfig and its build() orchestration.      *)
(* One build-script process constructs a BuildConfig with the builder      *)
(* operations and calls build(); the output directory persists between     *)
(* processes.  Text that the code transforms (the serialized tailwind      *)
(* configuration) is a sequence of one-character strings; text that the    *)
(* code only copies or prints is a string.                                 *)
(***************************************************************************)
EXTENDS Integers, Sequences, FiniteSets, TLC

VARIABLES
    cfg,        \* the BuildConfig under construction / being built
    env,        \* the process environment and the files outside OUT_DIR
    fs,         \* the files of the output directory (persist across builds)
    pc,         \* position of the build-script process
    src_dir,    \* build(): let src_dir (result of canonicalize)
    release,    \* build(): let release
    pipeline,   \* the branch build() took: "none", "InstallCompile", "JitSetup"
    events,     \* what this process has done so far, in order
    outcome,    \* how build() ended: "none", "Ok", "Err(..)", "panic: .."
    builds      \* number of build-script processes started so far

vars == <<cfg, env, fs, pc, src_dir, release, pipeline, events, outcome, builds>>

\* Number of build-script processes run against the same output directory.
MaxBuilds == 2
\* Largest number of characters of the new content that a write failing
\* midway is taken to have written.
MaxPartial == 1

-----------------------------------------------------------------------------
(* Text as sequences of characters *)

Spaces(n) == [i \in 1..n |-> " "]

\* the literal "{src_dir}" of config_string
SrcDirToken == <<"{", "s", "r", "c", "_", "d", "i", "r", "}">>

\* the start of the leftmost match of pat in s, or 0 when there is none
Find(s, pat) ==
    LET n == Len(pat)
        starts == {i \in 1..(Len(s) - n + 1) : SubSeq(s, i, i + n - 1) = pat}
    IN IF starts = {} THEN 0
       ELSE CHOOSE i \in starts : \A j \in starts : i <= j

\* str::replacen(from, to, 1): the first match only
Replace_first(s, from, to) ==
    LET i == Find(s, from) IN
    IF i = 0 THEN s
    ELSE SubSeq(s, 1, i - 1) \o to \o SubSeq(s, i + Len(from), Len(s))

\* str::replace(from, to), from non-empty: every non-overlapping match,
\* left to right
RECURSIVE Replace(_, _, _)
Replace(s, from, to) ==
    LET i == Find(s, from) IN
    IF i = 0 THEN s
    ELSE SubSeq(s, 1, i - 1) \o to
         \o Replace(SubSeq(s, i + Len(from), Len(s)), from, to)

\* number of non-overlapping matches of pat in s, scanning left to right
RECURSIVE Occurrences(_, _)
Occurrences(s, pat) ==
    LET i == Find(s, pat) IN
    IF i = 0 THEN 0
    ELSE 1 + Occurrences(SubSeq(s, i + Len(pat), Len(s)), pat)

\* whether pat occurs anywhere in s
Contains(s, pat) == Find(s, pat) # 0

\* a is a beginning of b (sequences or strings)
IsPrefix(a, b) == Len(a) <= Len(b) /\ SubSeq(b, 1, Len(a)) = a

-----------------------------------------------------------------------------
(* serde_json::Value; characters *)

JStr(s)  == [t |-> "string", s |-> s,    a |-> <<>>, o |-> <<>>]
JArr(a)  == [t |-> "array",  s |-> <<>>, a |-> a,    o |-> <<>>]
\* o: sequence of [k |-> key, v |-> value], in the map's iteration order
JObj(o)  == [t |-> "object", s |-> <<>>, a |-> <<>>, o |-> o]

HexDigits ==
    <<"0", "1", "2", "3", "4", "5", "6", "7",
      "8", "9", "a", "b", "c", "d", "e", "f">>

\* the character with code n below U+0020; those TLA+ has no escape for
\* are written by their code point
Ctrl(n) ==
    CASE n = 9  -> "\t"
      [] n = 10 -> "\n"
      [] n = 12 -> "\f"
      [] n = 13 -> "\r"
      [] OTHER  -> "U+00" \o HexDigits[(n \div 16) + 1] \o HexDigits[(n % 16) + 1]
CtrlChars == {Ctrl(n) : n \in 0..31}
IsCtrl(c) == c \in CtrlChars
CtrlCode(c) == CHOOSE n \in 0..31 : Ctrl(n) = c

-----------------------------------------------------------------------------
(* Text as strings: paths and printed lines *)

\* lower-case hexadecimal of n < 256, without leading zeros
LowerHex(n) ==
    IF n < 16 THEN HexDigits[n + 1]
    ELSE HexDigits[(n \div 16) + 1] \o HexDigits[(n % 16) + 1]

\* the characters up to U+00FF, other than \t \n \f \r, that are not
\* printable: U+0001..U+001F, U+007F..U+00A0 and U+00AD, each with its code
\* (U+0000 cannot occur in a path that exists or in an environment variable)
NonPrintable ==
    {<<1, "">>, <<2, "">>, <<3, "">>, <<4, "">>, <<5, "">>,
     <<6, "">>, <<7, "">>, <<8, "">>, <<11, "">>, <<14, "">>,
     <<15, "">>, <<16, "">>, <<17, "">>, <<18, "">>, <<19, "">>,
     <<20, "">>, <<21, "">>, <<22, "">>, <<23, "">>, <<24, "">>,
     <<25, "">>, <<26, "">>, <<27, "">>, <<28, "">>, <<29, "">>,
     <<30, "">>, <<31, "">>, <<127, "">>, <<128, "">>, <<129, "">>,
     <<130, "">>, <<131, "">>, <<132, "">>, <<133, "">>, <<134, "">>,
     <<135, "">>, <<136, "">>, <<137, "">>, <<138, "">>, <<139, "">>,
     <<140, "">>, <<141, "">>, <<142, "">>, <<143, "">>, <<144, "">>,
     <<145, "">>, <<146, "">>, <<147, "">>, <<148, "">>, <<149, "">>,
     <<150, "">>, <<151, "">>, <<152, "">>, <<153, "">>, <<154, "">>,
     <<155, "">>, <<156, "">>, <<157, "">>, <<158, "">>, <<159, "">>,
     <<160, " ">>, <<173, "­">>}
NonPrintableChars == {e[2] : e \in NonPrintable}
NonPrintableCode(c) == (CHOOSE e \in NonPrintable : e[2] = c)[1]
\* \u{..} of every such character
UnicodeEscapes ==
    [c \in NonPrintableChars |-> "\\u{" \o LowerHex(NonPrintableCode(c)) \o "}"]

\* char::escape_debug with the quoting of a path printed with {:?}; the
\* alphabet of paths is U+0001..U+00FF
EscapeDebugChar(c) ==
    CASE c = "\"" -> "\\\""
      [] c = "\\" -> "\\\\"
      [] c = "\n" -> "\\n"
      [] c = "\t" -> "\\t"
      [] c = "\r" -> "\\r"
      [] c = "\f" -> "\\u{c}"
      [] c \in NonPrintableChars -> UnicodeEscapes[c]
      [] c \in CtrlChars \ {"\t", "\n", "\r", "\f"} ->
            "\\u{" \o LowerHex(CtrlCode(c)) \o "}"
      [] OTHER    -> c

RECURSIVE EscapeDebug(_)
EscapeDebug(s) ==
    IF s = "" THEN ""
    ELSE EscapeDebugChar(SubSeq(s, 1, 1)) \o EscapeDebug(SubSeq(s, 2, Len(s)))

\* format!("{p:?}") of a path that is valid UTF-8
DebugString(s) == "\"" \o EscapeDebug(s) \o "\""

-----------------------------------------------------------------------------
(* serde_json string escaping and to_string_pretty *)

\* serde_json string escaping of one character
EscapeChar(c) ==
    CASE c = "\"" -> <<"\\", "\"">>
      [] c = "\\" -> <<"\\", "\\">>
      [] c = "\n" -> <<"\\", "n">>
      [] c = "\t" -> <<"\\", "t">>
      [] c = "\r" -> <<"\\", "r">>
      [] c = "\f" -> <<"\\", "f">>
      [] c = Ctrl(8) -> <<"\\", "b">>
      [] OTHER    ->
            IF IsCtrl(c)
            THEN <<"\\", "u", "0", "0", HexDigits[(CtrlCode(c) \div 16) + 1],
                   HexDigits[(CtrlCode(c) % 16) + 1]>>
            ELSE <<c>>

RECURSIVE EscapeStr(_)
EscapeStr(s) ==
    IF s = <<>> THEN <<>> ELSE EscapeChar(Head(s)) \o EscapeStr(Tail(s))

Quoted(s) == <<"\"">> \o EscapeStr(s) \o <<"\"">>

\* PrettyFormatter with the two-space indent, value v at nesting depth d
RECURSIVE Pretty(_, _)
RECURSIVE PrettyItems(_, _, _)
RECURSIVE PrettyMembers(_, _, _)
PrettyItems(a, d, first) ==
    IF a = <<>> THEN <<>>
    ELSE (IF first THEN <<"\n">> ELSE <<",", "\n">>)
         \o Spaces(2 * d) \o Pretty(Head(a), d)
         \o PrettyItems(Tail(a), d, FALSE)
PrettyMembers(o, d, first) ==
    IF o = <<>> THEN <<>>
    ELSE (IF first THEN <<"\n">> ELSE <<",", "\n">>)
         \o Spaces(2 * d) \o Quoted(Head(o).k) \o <<":", " ">>
         \o Pretty(Head(o).v, d)
         \o PrettyMembers(Tail(o), d, FALSE)
Pretty(v, d) ==
    CASE v.t = "string" -> Quoted(v.s)
      [] v.t = "array"  ->
            IF v.a = <<>> THEN <<"[", "]">>
            ELSE <<"[">> \o PrettyItems(v.a, d + 1, TRUE)
                 \o <<"\n">> \o Spaces(2 * d) \o <<"]">>
      [] v.t = "object" ->
            IF v.o = <<>> THEN <<"{", "}">>
            ELSE <<"{">> \o PrettyMembers(v.o, d + 1, TRUE)
                 \o <<"\n">> \o Spaces(2 * d) \o <<"}">>

to_string_pretty(v) == Pretty(v, 0)

-----------------------------------------------------------------------------
(* BuildConfig and the builder operations *)

\* Option<PathBuf>
None == [some |-> FALSE, p |-> ""]
Some(p) == [some |-> TRUE, p |-> p]

\* "{src_dir}/**/*.{html,js,rs}"
DefaultGlob ==
    SrcDirToken \o <<"/", "*", "*", "/", "*", ".", "{", "h", "t", "m", "l",
                     ",", "j", "s", ",", "r", "s", "}">>
\* "{src_dir}/**/*.html"
HtmlGlob == SrcDirToken \o <<"/", "*", "*", "/", "*", ".", "h", "t", "m", "l">>

KeyContent == <<"c", "o", "n", "t", "e", "n", "t">>
KeyPlugins == <<"p", "l", "u", "g", "i", "n", "s">>
KeyTheme   == <<"t", "h", "e", "m", "e">>
KeyExtend  == <<"e", "x", "t", "e", "n", "d">>

\* the json! document of BuildConfig::new; serde_json's Map iterates its keys
\* in sorted order
DefaultTailwindConfig ==
    JObj(<< [k |-> KeyContent, v |-> JArr(<<JStr(DefaultGlob)>>)],
            [k |-> KeyPlugins, v |-> JArr(<<>>)],
            [k |-> KeyTheme,
             v |-> JObj(<< [k |-> KeyExtend, v |-> JObj(<<>>)] >>)] >>)

\* json!({"content": ["{src_dir}/**/*.html"]})
HtmlTailwindConfig ==
    JObj(<< [k |-> KeyContent, v |-> JArr(<<JStr(HtmlGlob)>>)] >>)

DefaultCdnSrc == "https://cdn.tailwindcss.com"

\* arguments the build script may pass to the builder operations
CssPaths == {"custom.css"}
CdnSrcs == {"https://my.cdn.com"}
TailwindConfigs == {HtmlTailwindConfig}

new ==
    [css_path |-> None,
     tailwind_config |-> DefaultTailwindConfig,
     cdn_src |-> DefaultCdnSrc,
     always |-> FALSE]

\* always() flipping the flag instead of setting it
always_toggle(self) == [self EXCEPT !.always = ~@]

with_path(self, p) == [self EXCEPT !.css_path = p]
with_cdn_src(self, s) == [self EXCEPT !.cdn_src = s]
with_tw_config(self, config) == [self EXCEPT !.tailwind_config = config]
always(self) == [self EXCEPT !.always = TRUE]

-----------------------------------------------------------------------------
(* The environment of one build-script process *)

\* Result<String, VarError> of env::var
VarOk(v) == [ok |-> TRUE, v |-> v]
VarErr == [ok |-> FALSE, v |-> ""]

\* "/proj/src"
ProjSrc == <<"/", "p", "r", "o", "j", "/", "s", "r", "c">>

\* io::Result<PathBuf> of canonicalize("./src"); utf8 tells whether the
\* path is valid unicode
CanonOk(s, utf8) == [ok |-> TRUE, utf8 |-> utf8, s |-> s]
CanonErr == [ok |-> FALSE, utf8 |-> TRUE, s |-> <<>>]

\* what the process may find when it reads its environment
OutDirVars == {VarOk("/out"), VarErr}
SrcDirs == {CanonOk(ProjSrc, TRUE), CanonOk(ProjSrc, FALSE), CanonErr}
ProfileVars == {VarOk("release"), VarOk("debug"), VarOk("bench"), VarErr}

\* the files of the working directory the build may read
CwdFiles == {"style.css"} \cup CssPaths
\* those a build with this css_path can look at: the custom path and, as no
\* custom path means style.css, the root-level style.css
StylePaths(css_path) ==
    IF css_path.some THEN {css_path.p, "style.css"} ELSE {"style.css"}
CwdData(p) == "/* " \o p \o " */"

\* what the process has read of its environment so far: OUT_DIR, the
\* canonicalized ./src, PROFILE, and which of CwdFiles exist; read names the
\* parts already read
NoEnv ==
    [OUT_DIR |-> VarErr, src |-> CanonErr, PROFILE |-> VarErr, cwd |-> {},
     read |-> {}]
Read(e, part) == [e EXCEPT !.read = @ \cup {part}]

-----------------------------------------------------------------------------
(* The output directory *)

Absent(d) == [exists |-> FALSE, data |-> d]
File(d) == [exists |-> TRUE, data |-> d]

DEFAULT_PACKAGE_JSON ==
    "{\n    \"name\": \"include-tailwind\",\n    \"version\": \"1.0.0\",\n"
    \o "    \"description\": \"the autogenerated package.json for include-tailwind\",\n"
    \o "    \"devDependencies\": {\n        \"tailwindcss\": \"^3.4.4\"\n    }\n}\n"

DEFAULT_STYLE_CSS ==
    "\n@tailwind base;\n@tailwind components;\n@tailwind utilities;\n"

\* a manifest the user has edited to pin another version
UserPackageJson == "{ \"devDependencies\": { \"tailwindcss\": \"3.3.0\" } }"

EmptyOutDir ==
    [package_json |-> Absent(""),
     node_modules |-> FALSE,
     tw_config    |-> Absent(<<>>),
     style_in     |-> Absent(""),
     style_out    |-> Absent(""),
     jit_config   |-> Absent(<<>>)]

\* out_dir.join(name): an absolute name replaces the base, and a separator
\* is put in only after a non-empty base that does not end in one
Join(dir, name) ==
    IF name # "" /\ SubSeq(name, 1, 1) = "/" THEN name
    ELSE IF dir = "" \/ SubSeq(dir, Len(dir), Len(dir)) = "/" THEN dir \o name
    ELSE dir \o "/" \o name

\* the paths the build scripts modelled here print with {:?}, each formatted
\* once
PrintedPaths ==
    {Join(v.v, n) : v \in OutDirVars, n \in {"package.json", "tailwind.config.js"}}
    \cup CssPaths
DebugStrings == [p \in PrintedPaths |-> DebugString(p)]
\* format!("{p:?}")
Debug(s) == IF s \in PrintedPaths THEN DebugStrings[s] ELSE DebugString(s)

\* the file after a std::fs::write or std::fs::copy of data that returned
\* an error: untouched when the destination could not be opened, otherwise
\* created or truncated by the open and left empty or holding a beginning
\* of data, of any length up to MaxPartial
failed_write(old, data) ==
    {old} \cup {File(SubSeq(data, 1, n)) :
                  n \in {m \in 0..MaxPartial : m < Len(data)}}

-----------------------------------------------------------------------------
(* The record of what a process has done *)

Ev(kind, name, arg) == [kind |-> kind, name |-> name, arg |-> arg]
\* println!("cargo:<key>=<value>")
Cargo(key, value) == Ev("cargo", key, value)
\* any other println!
Info(text) == Ev("info", text, "")
\* std::fs::write / std::fs::copy on a file of the output directory
FsEv(file, res) == Ev("fs", file, res)
\* Command::new(..).status()
CmdEv(name, res) == Ev("cmd", name, res)

\* outcomes of a filesystem write
IoResults == {"ok", "err"}
\* outcomes of Command::status(): exit status 0, another exit status, or the
\* process could not be spawned
CmdResults == {"success", "failure", "spawn_error"}

-----------------------------------------------------------------------------
(* Pure parts of BuildConfig *)

\* is_release taking "debug" for a release profile
is_release_debug_too(profile) ==
    [release |-> profile.ok /\ profile.v \in {"release", "debug"},
     printed |-> <<Cargo("rerun-if-env-changed", "PROFILE")>>
                 \o IF profile.ok /\ profile.v \in {"release", "debug"}
                    THEN <<>>
                    ELSE <<Cargo("warning", "'PROFILE' was not defined, defaulting to debug")>>]

\* is_release taking every profile but "debug" for a release profile, and
\* not warning
is_release_not_debug(profile) ==
    [release |-> profile.ok /\ profile.v # "debug",
     printed |-> <<Cargo("rerun-if-env-changed", "PROFILE")>>]

\* is_release: the value returned and the lines printed, for the Result of
\* env::var("PROFILE")
is_release(profile) ==
    LET hint == Cargo("rerun-if-env-changed", "PROFILE") IN
    CASE profile.ok /\ profile.v = "release" ->
            [release |-> TRUE, printed |-> <<hint>>]
      [] profile.ok /\ profile.v = "debug" ->
            [release |-> FALSE, printed |-> <<hint>>]
      [] profile.ok /\ profile.v \notin {"release", "debug"} ->
            [release |-> FALSE,
             printed |-> <<hint,
                 Cargo("warning",
                       "'PROFILE' was neither release nor debug ('"
                       \o profile.v \o "')")>>]
      [] ~profile.ok ->
            [release |-> FALSE,
             printed |-> <<hint,
                 Cargo("warning",
                       "'PROFILE' was not defined, defaulting to debug")>>]

\* config_string taking the path with to_string_lossy, so never failing
config_string_lossy(self, dir) ==
    [ok |-> TRUE,
     s |-> Replace(to_string_pretty(self.tailwind_config), SrcDirToken, dir.s)]

\* serde_json::to_string_pretty(&self.tailwind_config)
\*     .replace("{src_dir}", path)
render(document, path) ==
    Replace(to_string_pretty(document), SrcDirToken, path)
\* the same for the documents and source directories of the build scripts
\* modelled here, each rendered once
Renders ==
    [document \in {DefaultTailwindConfig} \cup TailwindConfigs,
     path \in {d.s : d \in SrcDirs} |-> render(document, path)]
rendered(document, path) ==
    IF <<document, path>> \in DOMAIN Renders
    THEN Renders[document, path]
    ELSE render(document, path)

\* config_string: Result<String, Error>
config_string(self, dir) ==
    IF dir.utf8
    THEN [ok |-> TRUE, s |-> rendered(self.tailwind_config, dir.s)]
    ELSE [ok |-> FALSE, s |-> <<>>]

\* format!("\n            module.exports = {config_string}\n        ")
ModuleExportsPrefix ==
    <<"\n">> \o Spaces(12)
    \o <<"m", "o", "d", "u", "l", "e", ".", "e", "x", "p", "o", "r", "t", "s",
         " ", "=", " ">>
ModuleExportsSuffix == <<"\n">> \o Spaces(8)
tw_config_text(s) == ModuleExportsPrefix \o s \o ModuleExportsSuffix

\* format!("tailwind.config = {config_string}")
JitPrefix ==
    <<"t", "a", "i", "l", "w", "i", "n", "d", ".", "c", "o", "n", "f", "i", "g",
      " ", "=", " ">>
jit_config_text(s) == JitPrefix \o s

\* build() with the branch written `release && self.always`
build_branch_and(rel, alw) == IF rel /\ alw THEN "InstallCompile" ELSE "JitSetup"

\* the branch of build(): which pipeline runs
build_branch(rel, alw) == IF rel \/ alw THEN "InstallCompile" ELSE "JitSetup"

(* build() calling compile_tailwind without install_tailwind before it *)
FirstStep_compile_first(p) ==
    IF p = "InstallCompile" THEN "style_in" ELSE "jit_config"

\* the first step of each pipeline: install_tailwind's package.json check,
\* setup_jit's config_string
FirstStep(p) == IF p = "InstallCompile" THEN "package_json" ELSE "jit_config"

\* compile_tailwind falling back to the defaults when the custom path
\* does not exist, instead of panicking
style_source_fallback(css_path, cwd) ==
    IF css_path.some /\ css_path.p \in cwd THEN "custom"
    ELSE IF "style.css" \in cwd THEN "root" ELSE "default"

\* compile_tailwind looking for the root style.css before the custom path
style_source_root_first(css_path, cwd) ==
    IF "style.css" \in cwd THEN "root"
    ELSE IF css_path.some
         THEN IF css_path.p \in cwd THEN "custom" ELSE "missing"
         ELSE "default"

\* the source compile_tailwind takes style.in.css from:
\* "custom", "missing" (panic), "root" or "default"
style_source(css_path, cwd) ==
    IF css_path.some
    THEN IF css_path.p \in cwd THEN "custom" ELSE "missing"
    ELSE IF "style.css" \in cwd THEN "root" ELSE "default"

\* install_tailwind writing the manifest without the existence check
needs_manifest_always(f) == TRUE

\* install_tailwind: !package_json_path.exists()
needs_manifest(f) == ~f.package_json.exists

\* install_tailwind installing whenever the manifest is the generated one
needs_install_by_manifest(f) ==
    ~f.node_modules \/ f.package_json.data = DEFAULT_PACKAGE_JSON

(* the install command run by every invocation *)
needs_install_always(f) == TRUE

\* install_tailwind: !node_modules_path.exists()
needs_install(f) == ~f.node_modules

\* install_tailwind keeping a tailwind.config.js that already exists
write_tw_config_if_absent(old, text) == IF old.exists THEN old ELSE File(text)

\* std::fs::write(&tw_config_path, config): creates the file or replaces
\* its whole content
write_tw_config(old, text) == File(text)

(* the hint printed only once the custom stylesheet was found to exist *)
rerun_if_changed_found(css_path, source) ==
    IF css_path.some /\ source = "custom"
    THEN <<Cargo("rerun-if-changed", css_path.p)>>
    ELSE <<>>

(* compile_tailwind: if let Some(p) = &self.css_path, the line printed before
   p.exists() is looked at *)
rerun_if_changed(css_path, source) ==
    IF css_path.some
    THEN <<Cargo("rerun-if-changed", css_path.p)>>
    ELSE <<>>

\* the exit status of the command not being looked at
cmd_status_ignored(r, msg) ==
    IF r = "spawn_error" THEN "panic: unwrap on Err" ELSE "none"

\* what follows Command::status() with result r: "none" when the exit
\* status is success, else the panic (msg is the panic! of a failing exit)
cmd_status(r, msg) ==
    CASE r = "success"     -> "none"
      [] r = "failure"     -> "panic: " \o msg
      [] r = "spawn_error" -> "panic: unwrap on Err"

\* what `npm install` may leave of node_modules, by its result
npm_node_modules(before, r) ==
    IF r = "spawn_error" THEN {before} ELSE {before, TRUE}

\* what `npx tailwindcss -o style.css` may leave of style.css, by its result:
\* a command that ran may have written the file whatever its exit status,
\* and may have exited with success without writing it
npx_style_out(before, r) ==
    IF r = "spawn_error" THEN {before} ELSE {before, File("minified")}

-----------------------------------------------------------------------------
(* State machine *)

PanicOutcomes ==
    {"panic: OUT_DIR not provided", "panic: could not canonicalize",
     "panic: could not install tailwind",
     "panic: specified a css path but it does not exists",
     "panic: could not build styles", "panic: unwrap on Err"}
ErrOutcomes == {"Err(Io)", "Err(InvalidSrcPath)"}

Init ==
    /\ cfg = new
    /\ env = NoEnv
    /\ fs \in {[EmptyOutDir EXCEPT !.package_json = pj, !.node_modules = nm] :
                 pj \in {Absent(""), File(UserPackageJson)}, nm \in BOOLEAN}
    /\ pc = "config"
    /\ src_dir = CanonErr
    /\ release = FALSE
    /\ pipeline = "none"
    /\ events = <<>>
    /\ outcome = "none"
    /\ builds = 1

\* the process ends with outcome o
End(o) == pc' = "done" /\ outcome' = o
Goto(l) == pc' = l /\ outcome' = outcome
Log(es) == events' = events \o es

(* the build script's builder chain *)
WithPath ==
    /\ pc = "config"
    /\ \E p \in {None} \cup {Some(q) : q \in CssPaths} :
          cfg' = with_path(cfg, p)
    /\ UNCHANGED <<env, fs, pc, src_dir, release, pipeline, events, outcome, builds>>

WithCdnSrc ==
    /\ pc = "config"
    /\ \E s \in CdnSrcs : cfg' = with_cdn_src(cfg, s)
    /\ UNCHANGED <<env, fs, pc, src_dir, release, pipeline, events, outcome, builds>>

WithTwConfig ==
    /\ pc = "config"
    /\ \E c \in TailwindConfigs : cfg' = with_tw_config(cfg, c)
    /\ UNCHANGED <<env, fs, pc, src_dir, release, pipeline, events, outcome, builds>>

Always ==
    /\ pc = "config"
    /\ cfg' = always(cfg)
    /\ UNCHANGED <<env, fs, pc, src_dir, release, pipeline, events, outcome, builds>>

(* build() going on with an empty output directory path when OUT_DIR is not
   set *)
BuildOutDir_or_default ==
    /\ pc = "config"
    /\ \E v \in OutDirVars :
          /\ env' = Read([env EXCEPT !.OUT_DIR = v], "OUT_DIR")
          /\ Goto("canonicalize")
    /\ UNCHANGED <<cfg, fs, src_dir, release, pipeline, events, builds>>

(* build(): env::var("OUT_DIR").expect(..) *)
BuildOutDir ==
    /\ pc = "config"
    /\ \E v \in OutDirVars :
          /\ env' = Read([env EXCEPT !.OUT_DIR = v], "OUT_DIR")
          /\ IF v.ok
             THEN Goto("canonicalize")
             ELSE End("panic: OUT_DIR not provided")
    /\ UNCHANGED <<cfg, fs, src_dir, release, pipeline, events, builds>>

(* build(): std::fs::canonicalize("./src").expect(..) *)
BuildCanonicalize ==
    /\ pc = "canonicalize"
    /\ \E c \in SrcDirs :
          /\ env' = Read([env EXCEPT !.src = c], "src")
          /\ IF c.ok
             THEN src_dir' = c /\ Goto("is_release")
             ELSE src_dir' = src_dir /\ End("panic: could not canonicalize")
    /\ UNCHANGED <<cfg, fs, release, pipeline, events, builds>>

(* build(): let release = Self::is_release() *)
BuildIsRelease ==
    /\ pc = "is_release"
    /\ \E v \in ProfileVars :
          /\ env' = Read([env EXCEPT !.PROFILE = v], "PROFILE")
          /\ LET r == is_release(v) IN
                /\ release' = r.release
                /\ Log(r.printed)
    /\ Goto("branch")
    /\ UNCHANGED <<cfg, fs, src_dir, pipeline, builds>>

(* build(): if release || self.always *)
BuildBranch ==
    /\ pc = "branch"
    /\ pipeline' = build_branch(release, cfg.always)
    /\ Goto(FirstStep(pipeline'))
    /\ UNCHANGED <<cfg, env, fs, src_dir, release, events, builds>>

(* install_tailwind: if !package_json_path.exists() { write } *)
InstallPackageJson ==
    /\ pc = "package_json"
    /\ LET path == Join(env.OUT_DIR.v, "package.json") IN
       IF needs_manifest(fs)
       THEN \E io \in IoResults :
              /\ Log(<<Info("creating package.json (" \o Debug(path) \o ")"),
                       FsEv("package.json", io)>>)
              /\ IF io = "ok"
                 THEN /\ fs' = [fs EXCEPT
                                  !.package_json = File(DEFAULT_PACKAGE_JSON)]
                      /\ Goto("node_modules")
                 ELSE /\ \E f \in failed_write(fs.package_json,
                                                 DEFAULT_PACKAGE_JSON) :
                            fs' = [fs EXCEPT !.package_json = f]
                      /\ End("Err(Io)")
       ELSE /\ Log(<<Info("package.json already exists, not creating another one")>>)
            /\ fs' = fs
            /\ Goto("node_modules")
    /\ UNCHANGED <<cfg, env, src_dir, release, pipeline, builds>>

(* install_tailwind: if !node_modules_path.exists() { npm install } *)
InstallNodeModules ==
    /\ pc = "node_modules"
    /\ IF needs_install(fs)
       THEN \E r \in CmdResults :
              /\ Log(<<Info("installing tailwind"), CmdEv("npm install", r)>>)
              /\ \E nm \in npm_node_modules(fs.node_modules, r) :
                    fs' = [fs EXCEPT !.node_modules = nm]
              /\ LET o == cmd_status(r, "could not install tailwind") IN
                    IF o = "none" THEN Goto("tw_config") ELSE End(o)
       ELSE /\ Log(<<Info("node_modules already exists, not installing")>>)
            /\ fs' = fs
            /\ Goto("tw_config")
    /\ UNCHANGED <<cfg, env, src_dir, release, pipeline, builds>>

(* install_tailwind: config_string, format!, write tailwind.config.js *)
InstallTwConfig ==
    /\ pc = "tw_config"
    /\ LET path == Join(env.OUT_DIR.v, "tailwind.config.js")
           info == Info("writing tailwind config (" \o Debug(path) \o ")")
           cs == config_string(cfg, src_dir)
       IN IF ~cs.ok
          THEN /\ Log(<<info>>)
               /\ fs' = fs
               /\ End("Err(InvalidSrcPath)")
          ELSE \E io \in IoResults :
                 /\ Log(<<info, FsEv("tailwind.config.js", io)>>)
                 /\ IF io = "ok"
                    THEN /\ fs' = [fs EXCEPT !.tw_config =
                                     write_tw_config(fs.tw_config,
                                                     tw_config_text(cs.s))]
                         /\ Goto("style_in")
                    ELSE /\ \E f \in failed_write(fs.tw_config,
                                                    tw_config_text(cs.s)) :
                               fs' = [fs EXCEPT !.tw_config = f]
                         /\ End("Err(Io)")
    /\ UNCHANGED <<cfg, env, src_dir, release, pipeline, builds>>

(* compile_tailwind: resolve the input stylesheet into style.in.css; cwd is
   what the exists() checks find *)
CompileStyleIn ==
    /\ pc = "style_in"
    /\ \E cwd \in SUBSET StylePaths(cfg.css_path) :
       LET source == style_source(cfg.css_path, cwd)
           hint == rerun_if_changed(cfg.css_path, source)
           info == CASE source = "custom" ->
                           <<Info("copying " \o Debug(cfg.css_path.p)
                                  \o " to build css")>>
                     [] source = "root" ->
                           <<Info("copying style.css (default path)")>>
                     [] source = "default" ->
                           <<Info("creating default style.css")>>
                     [] source = "missing" -> <<>>
           data == CASE source = "custom" -> CwdData(cfg.css_path.p)
                     [] source = "root" -> CwdData("style.css")
                     [] OTHER -> DEFAULT_STYLE_CSS
       IN /\ env' = Read([env EXCEPT !.cwd = cwd], "cwd")
          /\ IF source = "missing"
             THEN /\ Log(hint)
                  /\ fs' = fs
                  /\ End("panic: specified a css path but it does not exists")
             ELSE \E io \in IoResults :
                    /\ Log(hint \o info \o <<FsEv("style.in.css", io)>>)
                    /\ IF io = "ok"
                       THEN /\ fs' = [fs EXCEPT !.style_in = File(data)]
                            /\ Goto("npx")
                       ELSE /\ \E f \in failed_write(fs.style_in, data) :
                                  fs' = [fs EXCEPT !.style_in = f]
                            /\ End("Err(Io)")
    /\ UNCHANGED <<cfg, src_dir, release, pipeline, builds>>

(* compile_tailwind: npx tailwindcss -i style.in.css -o style.css --minify *)
CompileNpx ==
    /\ pc = "npx"
    /\ \E r \in CmdResults :
          /\ Log(<<CmdEv("npx tailwindcss", r)>>)
          /\ \E out \in npx_style_out(fs.style_out, r) :
                fs' = [fs EXCEPT !.style_out = out]
          /\ LET o == cmd_status(r, "could not build styles") IN
                IF o = "none" THEN Goto("emit_path") ELSE End(o)
    /\ UNCHANGED <<cfg, env, src_dir, release, pipeline, builds>>

(* build() without the else: setup_jit called after the compiled pipeline *)
CompileEmit_no_else ==
    /\ pc = "emit_path"
    /\ Log(<<Cargo("rustc-env=INCLUDE_TAILWIND_PATH",
                   Join(env.OUT_DIR.v, "style.css"))>>)
    /\ Goto("jit_config")
    /\ UNCHANGED <<cfg, env, fs, src_dir, release, pipeline, builds>>

(* compile_tailwind: println!("cargo:rustc-env=INCLUDE_TAILWIND_PATH=..") *)
CompileEmit ==
    /\ pc = "emit_path"
    /\ Log(<<Cargo("rustc-env=INCLUDE_TAILWIND_PATH",
                   Join(env.OUT_DIR.v, "style.css"))>>)
    /\ End("Ok")
    /\ UNCHANGED <<cfg, env, fs, src_dir, release, pipeline, builds>>

(* setup_jit serializing the document itself and leaving {src_dir} in it *)
SetupJitConfig_unrendered ==
    /\ pc = "jit_config"
    /\ LET cs == [ok |-> src_dir.utf8,
                  s |-> to_string_pretty(cfg.tailwind_config)] IN
       IF ~cs.ok
       THEN /\ events' = events
            /\ fs' = fs
            /\ End("Err(InvalidSrcPath)")
       ELSE \E io \in IoResults :
              /\ Log(<<FsEv("jit_config.js", io)>>)
              /\ IF io = "ok"
                 THEN /\ fs' = [fs EXCEPT
                                  !.jit_config = File(jit_config_text(cs.s))]
                      /\ Goto("jit_emit")
                 ELSE /\ \E f \in failed_write(fs.jit_config,
                                                 jit_config_text(cs.s)) :
                            fs' = [fs EXCEPT !.jit_config = f]
                      /\ End("Err(Io)")
    /\ UNCHANGED <<cfg, env, src_dir, release, pipeline, builds>>

(* setup_jit: config_string, format!, write jit_config.js *)
SetupJitConfig ==
    /\ pc = "jit_config"
    /\ LET cs == config_string(cfg, src_dir) IN
       IF ~cs.ok
       THEN /\ events' = events
            /\ fs' = fs
            /\ End("Err(InvalidSrcPath)")
       ELSE \E io \in IoResults :
              /\ Log(<<FsEv("jit_config.js", io)>>)
              /\ IF io = "ok"
                 THEN /\ fs' = [fs EXCEPT
                                  !.jit_config = File(jit_config_text(cs.s))]
                      /\ Goto("jit_emit")
                 ELSE /\ \E f \in failed_write(fs.jit_config,
                                                 jit_config_text(cs.s)) :
                            fs' = [fs EXCEPT !.jit_config = f]
                      /\ End("Err(Io)")
    /\ UNCHANGED <<cfg, env, src_dir, release, pipeline, builds>>

(* setup_jit: the two rustc-env lines *)
SetupJitEmit ==
    /\ pc = "jit_emit"
    /\ Log(<<Cargo("rustc-env=INCLUDE_TAILWIND_JIT_CONFIG_PATH",
                   Join(env.OUT_DIR.v, "jit_config.js")),
             Cargo("rustc-env=INCLUDE_TAILWIND_JIT_URL", cfg.cdn_src)>>)
    /\ End("Ok")
    /\ UNCHANGED <<cfg, env, fs, src_dir, release, pipeline, builds>>

(* the build script runs again, as a new process, on the same OUT_DIR *)
NextProcess ==
    /\ pc = "done"
    /\ builds < MaxBuilds
    /\ builds' = builds + 1
    /\ cfg' = new
    /\ env' = NoEnv
    /\ src_dir' = CanonErr
    /\ release' = FALSE
    /\ pipeline' = "none"
    /\ events' = <<>>
    /\ outcome' = "none"
    /\ pc' = "config"
    /\ UNCHANGED fs

Next ==
    \/ WithPath \/ WithCdnSrc \/ WithTwConfig \/ Always
    \/ BuildOutDir \/ BuildCanonicalize \/ BuildIsRelease \/ BuildBranch
    \/ InstallPackageJson \/ InstallNodeModules \/ InstallTwConfig
    \/ CompileStyleIn \/ CompileNpx \/ CompileEmit
    \/ SetupJitConfig \/ SetupJitEmit
    \/ NextProcess

Spec == Init /\ [][Next]_vars

-----------------------------------------------------------------------------
(* The template renderer on its own: one configuration document and one
   source directory, rendered by the render step of each pipeline *)

\* {"plugins": []}
NoTokenConfig == JObj(<< [k |-> KeyPlugins, v |-> JArr(<<>>)] >>)
\* {"content": ["{src_dir}/a", "{src_dir}{src_dir}"]}
ManyTokenConfig ==
    JObj(<< [k |-> KeyContent,
             v |-> JArr(<< JStr(SrcDirToken \o <<"/", "a">>),
                           JStr(SrcDirToken \o SrcDirToken) >>)] >>)
\* {"content": ["{src_dir}_dir}"]}
TailTokenConfig ==
    JObj(<< [k |-> KeyContent,
             v |-> JArr(<< JStr(SrcDirToken \o <<"_", "d", "i", "r", "}">>) >>)] >>)

\* a document with control characters in a string
ControlConfig ==
    JObj(<<[k |-> KeyContent,
            v |-> JArr(<<JStr(SrcDirToken
                              \o <<"/", "\r", "\f", Ctrl(8), Ctrl(1), Ctrl(31)>>)>>)]>>)
RenderConfigs ==
    {DefaultTailwindConfig, HtmlTailwindConfig, NoTokenConfig, ManyTokenConfig,
     TailTokenConfig, ControlConfig}

\* "/{src_dir}/src": the project lies in a directory named {src_dir}
TokenSrc == <<"/">> \o SrcDirToken \o <<"/", "s", "r", "c">>
\* "/p\"q/src"
QuoteSrc == <<"/", "p", "\"", "q", "/", "s", "r", "c">>
\* "/a/{src": ./src is a link to a directory named {src
BraceSrc == <<"/", "a", "/", "{", "s", "r", "c">>

RenderDirs ==
    {CanonOk(ProjSrc, TRUE), CanonOk(ProjSrc, FALSE), CanonOk(TokenSrc, TRUE),
     CanonOk(QuoteSrc, TRUE), CanonOk(BraceSrc, TRUE)}

\* what a process of pipeline p has read when build() reaches its branch
RenderEnv(p, dir) ==
    [OUT_DIR |-> VarOk("/out"), src |-> dir,
     PROFILE |-> IF p = "InstallCompile" THEN VarOk("release") ELSE VarOk("debug"),
     cwd |-> {}, read |-> {"OUT_DIR", "src", "PROFILE"}]
\* and what it has printed
RenderEvents(p) == is_release(RenderEnv(p, CanonErr).PROFILE).printed

RenderInit ==
    /\ cfg \in {with_tw_config(new, d) : d \in RenderConfigs}
    /\ src_dir \in RenderDirs
    /\ pipeline \in {"InstallCompile", "JitSetup"}
    /\ env = RenderEnv(pipeline, src_dir)
    /\ release = is_release(env.PROFILE).release
    /\ events = RenderEvents(pipeline)
    /\ fs = [EmptyOutDir EXCEPT !.package_json = File(UserPackageJson),
                                !.node_modules = TRUE]
    /\ pc = FirstStep(pipeline)
    /\ outcome = "none"
    /\ builds = 1

(* once the process has ended, the same configuration is built again in the
   same source directory, under either profile *)
RenderAgain ==
    /\ pc = "done"
    /\ builds < MaxBuilds
    /\ builds' = builds + 1
    /\ \E p \in {"InstallCompile", "JitSetup"} :
          /\ pipeline' = p
          /\ env' = RenderEnv(p, src_dir)
          /\ release' = is_release(env'.PROFILE).release
          /\ events' = RenderEvents(p)
          /\ pc' = FirstStep(p)
    /\ outcome' = "none"
    /\ UNCHANGED <<cfg, fs, src_dir>>

RenderNext ==
    \/ InstallPackageJson \/ InstallNodeModules \/ InstallTwConfig
    \/ CompileStyleIn \/ CompileNpx \/ CompileEmit
    \/ SetupJitConfig \/ SetupJitEmit
    \/ RenderAgain

RenderSpec == RenderInit /\ [][RenderNext]_vars

-----------------------------------------------------------------------------
(* The compiled pipeline repeated: a build whose configuration and profile
   select InstallCompile, and the same build script run again on the same
   output directory after it succeeded *)

\* a stylesheet path with U+007F in its name
DelPath == "custom.css"

RepeatConfigs ==
    LET base == {new, with_path(new, Some("custom.css")),
                 with_path(new, Some(DelPath)),
                 with_tw_config(new, HtmlTailwindConfig)}
    IN base \cup {always(c) : c \in base}

\* the process as it stands when build() enters install_tailwind
RepeatInit ==
    /\ cfg \in RepeatConfigs
    /\ src_dir \in {c \in SrcDirs : c.ok}
    /\ \E v \in ProfileVars :
          /\ env = [NoEnv EXCEPT !.OUT_DIR = VarOk("/out"), !.src = src_dir,
                                 !.PROFILE = v,
                                 !.read = {"OUT_DIR", "src", "PROFILE"}]
          /\ release = is_release(v).release
          /\ events = is_release(v).printed
    /\ pipeline = build_branch(release, cfg.always)
    /\ pipeline = "InstallCompile"
    /\ fs \in {[EmptyOutDir EXCEPT !.package_json = pj, !.node_modules = nm] :
                 pj \in {Absent(""), File(UserPackageJson)}, nm \in BOOLEAN}
    /\ pc = FirstStep(pipeline)
    /\ outcome = "none"
    /\ builds = 1

(* after a successful build, the same build script runs again, as a new
   process, with the same OUT_DIR, ./src and PROFILE: the process as it
   stands when build() enters install_tailwind, having read those three
   again and not yet looked at the working directory *)
RepeatAgain ==
    /\ pc = "done" /\ outcome = "Ok"
    /\ builds < MaxBuilds
    /\ builds' = builds + 1
    /\ env' = [env EXCEPT !.cwd = {}, !.read = {"OUT_DIR", "src", "PROFILE"}]
    /\ events' = is_release(env.PROFILE).printed
    /\ pc' = FirstStep(pipeline)
    /\ outcome' = "none"
    /\ UNCHANGED <<cfg, fs, src_dir, release, pipeline>>

RepeatNext ==
    \/ InstallPackageJson \/ InstallNodeModules \/ InstallTwConfig
    \/ CompileStyleIn \/ CompileNpx \/ CompileEmit
    \/ RepeatAgain

RepeatSpec == RepeatInit /\ [][RepeatNext]_vars

-----------------------------------------------------------------------------
(* Views of the current process, used by the properties *)

Select(kind) == SelectSeq(events, LAMBDA e : e.kind = kind)
Named(es, name) == SelectSeq(es, LAMBDA e : e.name = name)
\* the external commands invoked, the filesystem writes attempted and the
\* cargo lines printed by this process, in order
Cmds == Select("cmd")
Writes == Select("fs")
CargoLines == Select("cargo")
Invoked(name) == Named(Cmds, name) # <<>>
Emitted(name) == Named(CargoLines, name) # <<>>
Wrote(file) == FsEv(file, "ok") \in {events[i] : i \in DOMAIN events}

InstallCompileSteps ==
    {"package_json", "node_modules", "tw_config", "style_in", "npx", "emit_path"}
JitSetupSteps == {"jit_config", "jit_emit"}
InstallCompileNames ==
    {"package.json", "tailwind.config.js", "style.in.css", "npm install",
     "npx tailwindcss", "rustc-env=INCLUDE_TAILWIND_PATH"}
JitSetupNames ==
    {"jit_config.js", "rustc-env=INCLUDE_TAILWIND_JIT_CONFIG_PATH",
     "rustc-env=INCLUDE_TAILWIND_JIT_URL"}
Did(names) ==
    \E i \in DOMAIN events :
        events[i].kind \in {"fs", "cmd", "cargo"} /\ events[i].name \in names

\* the custom stylesheet path is set and was found to name no existing file
CustomMissing ==
    /\ cfg.css_path.some
    /\ "cwd" \in env.read
    /\ cfg.css_path.p \notin env.cwd

-----------------------------------------------------------------------------
(* Properties *)

\* C1: for every configuration and every PROFILE value (release, debug,
\* another value, missing), build takes the InstallCompile pipeline iff
\* PROFILE is exactly "release" or the configuration's always flag is set,
\* and the JitSetup pipeline in every other case; only the steps of the
\* pipeline taken run.
C1_BranchIffReleaseOrAlways ==
    LET wanted == env.PROFILE = VarOk("release") \/ cfg.always IN
    /\ pipeline # "none" =>
          /\ (pipeline = "InstallCompile") <=> wanted
          /\ (pipeline = "JitSetup") <=> ~wanted
    /\ (pc \in InstallCompileSteps \/ Did(InstallCompileNames)) =>
          pipeline = "InstallCompile" /\ wanted
    /\ (pc \in JitSetupSteps \/ Did(JitSetupNames)) =>
          pipeline = "JitSetup" /\ ~wanted

\* C1 witness: a debug build with always() has run InstallCompile to its end
C1_Witness ==
    /\ pc = "done" /\ outcome = "Ok"
    /\ env.PROFILE = VarOk("debug") /\ cfg.always
    /\ pipeline = "InstallCompile"
    /\ Emitted("rustc-env=INCLUDE_TAILWIND_PATH")

\* C2 (as stated): with a custom stylesheet path that names no existing
\* file, an InstallCompile invocation invokes no external process at all,
\* whatever the output directory holds.
C2_NoProcessBeforeCssFailure ==
    (pipeline = "InstallCompile" /\ CustomMissing) => Cmds = <<>>

\* C2 (amended): with a custom stylesheet path that names no existing file,
\* an InstallCompile invocation always fails, and fails before style.in.css
\* is written and before the compile command is invoked; the only external
\* process it may invoke is the install command, once.
C2_FailsBeforeCompile ==
    (pipeline = "InstallCompile" /\ CustomMissing) =>
        /\ ~Invoked("npx tailwindcss")
        /\ Named(Writes, "style.in.css") = <<>>
        /\ ~Emitted("rustc-env=INCLUDE_TAILWIND_PATH")
        /\ Len(Cmds) <= 1
        /\ pc \notin {"npx", "emit_path"}
        /\ pc = "done" => outcome \in PanicOutcomes \cup ErrOutcomes

\* C2 witness: the invocation installed successfully and then panicked on
\* the missing stylesheet
C2_Witness ==
    /\ pipeline = "InstallCompile" /\ CustomMissing
    /\ pc = "done"
    /\ outcome = "panic: specified a css path but it does not exists"
    /\ Cmds = <<CmdEv("npm install", "success")>>

NpmInstalls(es) ==
    Len(SelectSeq(es, LAMBDA e : e.kind = "cmd" /\ e.name = "npm install"))

\* C3: in an InstallCompile invocation the install command is invoked iff
\* node_modules is absent when step 2 is reached, whatever package.json was
\* and however node_modules came to exist; no other step invokes it.
C3_InstallIffNodeModulesAbsent ==
    [][ NpmInstalls(events') =
          IF pc = "node_modules" /\ ~fs.node_modules
          THEN NpmInstalls(events) + 1
          ELSE IF pc = "done" THEN 0 ELSE NpmInstalls(events) ]_vars

\* C3 witness: a later process found node_modules next to a manifest it did
\* not create, and went past step 2 without installing
C3_Witness ==
    /\ builds > 1
    /\ pc = "tw_config"
    /\ fs.node_modules
    /\ fs.package_json = File(UserPackageJson)
    /\ ~Invoked("npm install")

\* C4: a package.json that exists is never changed by any step of any
\* invocation of either pipeline; the only change ever made to package.json
\* is the write of the default manifest where there was none, which leaves
\* the default manifest or, when the write fails, a beginning of it.
C4_ManifestNeverOverwritten ==
    [][ /\ fs.package_json.exists => fs'.package_json = fs.package_json
        /\ fs'.package_json # fs.package_json =>
              /\ pc = "package_json"
              /\ ~fs.package_json.exists
              /\ fs'.package_json.exists
              /\ IF outcome' = "Err(Io)"
                 THEN /\ IsPrefix(fs'.package_json.data, DEFAULT_PACKAGE_JSON)
                      /\ fs'.package_json.data # DEFAULT_PACKAGE_JSON
                 ELSE fs'.package_json = File(DEFAULT_PACKAGE_JSON) ]_vars

\* C4 witness: a second InstallCompile invocation has ended successfully
\* with the user's manifest still in place
C4_Witness ==
    /\ builds > 1
    /\ pc = "done" /\ outcome = "Ok" /\ pipeline = "InstallCompile"
    /\ fs.package_json = File(UserPackageJson)

\* the tailwind.config.js expected for json!({"content":
\* ["{src_dir}/**/*.html"]}) and the source directory /proj/src
HtmlTwConfigFile ==
    <<
        "\n", " ", " ", " ", " ", " ", " ", " ", " ", " ", " ", " ", " ",
        "m", "o", "d", "u", "l", "e", ".", "e", "x", "p", "o", "r", "t",
        "s", " ", "=", " ", "{", "\n", " ", " ", "\"", "c", "o", "n", "t",
        "e", "n", "t", "\"", ":", " ", "[", "\n", " ", " ", " ", " ", "\"",
        "/", "p", "r", "o", "j", "/", "s", "r", "c", "/", "*", "*", "/",
        "*", ".", "h", "t", "m", "l", "\"", "\n", " ", " ", "]", "\n", "}",
        "\n", " ", " ", " ", " ", " ", " ", " ", " "
    >>

\* this process has written tailwind.config.js (step 3 succeeded)
TwConfigWritten == Wrote("tailwind.config.js")

\* the text install_tailwind hands to the write of tailwind.config.js, for
\* each configuration document and each source directory
TwConfigText ==
    [c \in {DefaultTailwindConfig} \cup TailwindConfigs, d \in SrcDirs |->
        ModuleExportsPrefix
        \o Replace(to_string_pretty(c), SrcDirToken, d.s)
        \o ModuleExportsSuffix]
\* the documents and directories whose text holds no {src_dir} any more
TwConfigTokenFree ==
    {k \in DOMAIN TwConfigText : ~Contains(TwConfigText[k], SrcDirToken)}

\* C5: every InstallCompile invocation that gets past the install step and
\* whose write succeeds leaves tailwind.config.js holding the module.exports
\* wrapper around the render of the configuration document of THIS
\* invocation, with {src_dir} replaced by the canonicalized source
\* directory, whatever the file held before; for the document
\* {"content":["{src_dir}/**/*.html"]} and /proj/src that is the content
\* glob ["/proj/src/**/*.html"].  Step 3 is reached only through step 2 and
\* always attempts the write when the source path is valid text.
C5_TwConfigAlwaysRewritten ==
    /\ TwConfigWritten =>
          /\ fs.tw_config.exists
          /\ fs.tw_config.data = TwConfigText[cfg.tailwind_config, env.src]
          /\ <<cfg.tailwind_config, env.src>> \in TwConfigTokenFree
          /\ (cfg.tailwind_config = HtmlTailwindConfig /\ env.src.s = ProjSrc)
                => fs.tw_config.data = HtmlTwConfigFile
    /\ pc \in {"style_in", "npx", "emit_path"} => TwConfigWritten
    /\ (pipeline = "InstallCompile" /\ outcome = "Ok") => TwConfigWritten

\* C5 witness: a later process with the custom document has rewritten a
\* tailwind.config.js that an earlier process left
C5_Witness ==
    /\ builds > 1
    /\ pc = "style_in"
    /\ cfg.always
    /\ cfg.tailwind_config = HtmlTailwindConfig
    /\ fs.tw_config.data = HtmlTwConfigFile
    /\ fs.style_in.exists

\* C6: a failed external command is fatal and never retried: when the
\* install or the compile command does not exit successfully, it is the
\* last thing the invocation does, the invocation ends by panicking, each
\* command is invoked at most once per invocation, no config write or
\* compile follows a failed install, and INCLUDE_TAILWIND_PATH is not
\* emitted.
C6_CommandFailureFatal ==
    /\ Len(Named(Cmds, "npm install")) <= 1
    /\ Len(Named(Cmds, "npx tailwindcss")) <= 1
    /\ \A i \in DOMAIN events :
          (events[i].kind = "cmd" /\ events[i].arg # "success") =>
              /\ i = Len(events)
              /\ pc = "done"
              /\ outcome \in PanicOutcomes
              /\ ~Emitted("rustc-env=INCLUDE_TAILWIND_PATH")
              /\ events[i].name = "npm install" =>
                    /\ Named(Writes, "tailwind.config.js") = <<>>
                    /\ Named(Writes, "style.in.css") = <<>>
                    /\ ~Invoked("npx tailwindcss")

\* C6 witness: the install command exited unsuccessfully and the process
\* panicked
C6_Witness ==
    /\ pc = "done"
    /\ outcome = "panic: could not install tailwind"
    /\ Cmds = <<CmdEv("npm install", "failure")>>

\* the rustc-env lines printed by this process
RustcEnv ==
    SelectSeq(CargoLines,
              LAMBDA e : e.name \in {"rustc-env=INCLUDE_TAILWIND_PATH",
                                     "rustc-env=INCLUDE_TAILWIND_JIT_CONFIG_PATH",
                                     "rustc-env=INCLUDE_TAILWIND_JIT_URL"})

\* the build script called build() on BuildConfig::new() with PROFILE=debug
DefaultDebugBuild ==
    /\ cfg = new
    /\ "PROFILE" \in env.read
    /\ env.PROFILE = VarOk("debug")

\* C7: with default options and a Debug profile, a build invocation invokes
\* no subprocess and writes no file but jit_config.js; when it succeeds it
\* has written exactly that one file and emitted exactly two rustc-env
\* directives, the generated script's path and the default CDN URL
\* https://cdn.tailwindcss.com (the rerun-if-env-changed hint of profile
\* detection is the only other cargo line).
C7_DefaultDebugBuild ==
    DefaultDebugBuild =>
        /\ Cmds = <<>>
        /\ \A i \in DOMAIN Writes : Writes[i].name = "jit_config.js"
        /\ outcome = "Ok" =>
              /\ Writes = <<FsEv("jit_config.js", "ok")>>
              /\ fs.jit_config.exists
              /\ RustcEnv =
                    << Cargo("rustc-env=INCLUDE_TAILWIND_JIT_CONFIG_PATH",
                             "/out/jit_config.js"),
                       Cargo("rustc-env=INCLUDE_TAILWIND_JIT_URL",
                             "https://cdn.tailwindcss.com") >>
              /\ Len(CargoLines) = 3

\* C7 witness: such a build has succeeded
C7_Witness ==
    /\ DefaultDebugBuild
    /\ pc = "done" /\ outcome = "Ok"
    /\ Len(RustcEnv) = 2

\* C8 (as stated): JitSetup invokes no external process and every failing
\* outcome of an invocation that selected JitSetup is an I/O failure.
C8_JitFailsOnlyOnIo ==
    pipeline = "JitSetup" =>
        /\ Cmds = <<>>
        /\ (pc = "done" /\ outcome # "Ok") => outcome = "Err(Io)"

\* C8 (amended): JitSetup invokes no external process and never panics;
\* every failing outcome of an invocation that selected JitSetup is either
\* an I/O failure of the jit_config.js write or the invalid-source-path
\* error of the template renderer, which is returned exactly when the
\* canonicalized source directory is not valid unicode, before anything is
\* written.
C8_JitFailsOnlyOnIoOrSrcPath ==
    pipeline = "JitSetup" =>
        /\ Cmds = <<>>
        /\ outcome \notin PanicOutcomes
        /\ (pc = "done" /\ outcome # "Ok") =>
              outcome \in {"Err(Io)", "Err(InvalidSrcPath)"}
        /\ outcome = "Err(Io)" =>
              events[Len(events)] = FsEv("jit_config.js", "err")
        /\ outcome = "Err(InvalidSrcPath)" => Writes = <<>>
        /\ pc = "done" => (outcome = "Err(InvalidSrcPath)" <=> ~env.src.utf8)

\* C8 witness: a JitSetup invocation has failed with the invalid-source-path
\* error
C8_Witness ==
    /\ pipeline = "JitSetup"
    /\ pc = "done"
    /\ outcome = "Err(InvalidSrcPath)"

\* this process has written style.in.css (step 4 succeeded)
StyleInWritten == Wrote("style.in.css")

\* C9: the style.in.css written by InstallCompile is a copy of the custom
\* file when a custom path is set and exists (even if a root style.css
\* exists too), a copy of the root style.css when no custom path is set and
\* it exists, and the built-in three-directive default when no custom path
\* is set and there is no root style.css; what style.in.css held before
\* does not matter.  The compile command runs only on a style.in.css
\* written by the same invocation.
C9_StyleInPriority ==
    /\ StyleInWritten =>
          /\ fs.style_in.exists
          /\ cfg.css_path.some =>
                /\ cfg.css_path.p \in env.cwd
                /\ fs.style_in.data = CwdData(cfg.css_path.p)
          /\ (~cfg.css_path.some /\ "style.css" \in env.cwd) =>
                fs.style_in.data = CwdData("style.css")
          /\ (~cfg.css_path.some /\ "style.css" \notin env.cwd) =>
                fs.style_in.data = DEFAULT_STYLE_CSS
    /\ (pc \in {"npx", "emit_path"} \/ Invoked("npx tailwindcss")) =>
          StyleInWritten

\* C9 witness: with both a custom file and a root style.css present, a later
\* process has copied the custom file over the style.in.css left before
C9_Witness ==
    /\ builds > 1
    /\ pc = "npx"
    /\ cfg.css_path = Some("custom.css")
    /\ env.cwd = {"style.css", "custom.css"}
    /\ fs.style_in = File(CwdData("custom.css"))
    /\ fs.style_out.exists

\* profile detection has run in this process
Detected == pc = "branch" \/ pipeline # "none"

Warnings == Named(CargoLines, "warning")

\* C10: profile detection returns Release only for PROFILE exactly
\* "release"; Debug without a warning for "debug"; Debug with one warning
\* for any other value and for a missing PROFILE; it prints the
\* rerun-if-env-changed=PROFILE hint first on every call; and it never ends
\* the build: a build that ends before a pipeline is selected ended on
\* OUT_DIR or on canonicalize.
C10_ProfileDetection ==
    /\ Detected =>
          /\ release <=> (env.PROFILE.ok /\ env.PROFILE.v = "release")
          /\ events[1] = Cargo("rerun-if-env-changed", "PROFILE")
          /\ Len(Named(CargoLines, "rerun-if-env-changed")) = 1
          /\ env.PROFILE \in {VarOk("release"), VarOk("debug")} =>
                Warnings = <<>>
          /\ (env.PROFILE.ok /\ env.PROFILE.v \notin {"release", "debug"}) =>
                Warnings = <<Cargo("warning",
                    "'PROFILE' was neither release nor debug ('bench')")>>
          /\ ~env.PROFILE.ok =>
                Warnings = <<Cargo("warning",
                    "'PROFILE' was not defined, defaulting to debug")>>
    /\ pc = "branch" => outcome = "none"
    /\ (pc = "done" /\ pipeline = "none") =>
          /\ outcome \in {"panic: OUT_DIR not provided",
                          "panic: could not canonicalize"}
          /\ events = <<>>

\* C10 witness: detection ran on an unrecognized value, warned and answered
\* Debug
C10_Witness ==
    /\ pc = "branch"
    /\ env.PROFILE = VarOk("bench")
    /\ ~release
    /\ Len(Warnings) = 1

-----------------------------------------------------------------------------
(* Properties of the template renderer, under RenderSpec *)

\* the text inside the fixed wrapper of each written file
TwEmbedded ==
    SubSeq(fs.tw_config.data, Len(ModuleExportsPrefix) + 1,
           Len(fs.tw_config.data) - Len(ModuleExportsSuffix))
JitEmbedded ==
    SubSeq(fs.jit_config.data, Len(JitPrefix) + 1, Len(fs.jit_config.data))

\* C11: for the same configuration document and the same source directory,
\* the file an invocation has written is its pipeline's fixed wrapper around
\* a rendered text, and the other pipeline's file, left by an earlier
\* invocation, is the other wrapper around that same text (or, where its
\* write failed, a beginning of that).
C11_SameRenderInBothPipelines ==
    /\ Wrote("tailwind.config.js") =>
          /\ fs.tw_config.data =
                ModuleExportsPrefix \o TwEmbedded \o ModuleExportsSuffix
          /\ fs.jit_config.exists =>
                IsPrefix(fs.jit_config.data, JitPrefix \o TwEmbedded)
    /\ Wrote("jit_config.js") =>
          /\ fs.jit_config.data = JitPrefix \o JitEmbedded
          /\ fs.tw_config.exists =>
                IsPrefix(fs.tw_config.data,
                         ModuleExportsPrefix \o JitEmbedded
                            \o ModuleExportsSuffix)

\* C11 witness: jit_config.js has been written next to the complete
\* tailwind.config.js of an earlier invocation, for a document with several
\* tokens and a source directory with a quote in it
C11_Witness ==
    /\ Wrote("jit_config.js")
    /\ fs.tw_config.data =
          ModuleExportsPrefix \o JitEmbedded \o ModuleExportsSuffix
    /\ cfg.tailwind_config = ManyTokenConfig
    /\ src_dir = CanonOk(QuoteSrc, TRUE)

\* the serialized document, before substitution
Serialized == to_string_pretty(cfg.tailwind_config)

\* text is Serialized with exactly as many substitutions made as the token
\* occurs in it: every substitution changes the length by the same amount
SubstitutedEachOccurrence(text) ==
    Len(text) = Len(Serialized)
                + Occurrences(Serialized, SrcDirToken)
                  * (Len(src_dir.s) - Len(SrcDirToken))

\* the rendered texts written by the current process
Rendered ==
    (IF Wrote("tailwind.config.js") THEN {TwEmbedded} ELSE {})
    \cup (IF Wrote("jit_config.js") THEN {JitEmbedded} ELSE {})

\* C12 (as stated): for every document and every source directory, the
\* rendered text contains no occurrence of {src_dir}, and the number of
\* substitutions equals the number of occurrences in the serialized document.
C12_NoTokenAfterRender ==
    \A text \in Rendered :
        /\ ~Contains(text, SrcDirToken)
        /\ SubstitutedEachOccurrence(text)

\* C12 (amended): for every document and every source directory, every
\* occurrence of {src_dir} in the serialized document is substituted, once
\* each; the rendered text contains no occurrence of {src_dir} whenever the
\* source directory path contains no "{", and otherwise may contain it
\* again (a path containing the token, or ending in the beginning of one).
C12_EveryOccurrenceSubstituted ==
    \A text \in Rendered :
        /\ SubstitutedEachOccurrence(text)
        /\ (\A i \in DOMAIN src_dir.s : src_dir.s[i] # "{") =>
              ~Contains(text, SrcDirToken)
        /\ Occurrences(src_dir.s, SrcDirToken) > 0 =>
              Occurrences(text, SrcDirToken) >=
                 Occurrences(Serialized, SrcDirToken)

\* C12 witness: a document with three tokens, two of them adjacent, has been
\* rendered for /proj/src and no token is left
C12_Witness ==
    /\ cfg.tailwind_config = ManyTokenConfig
    /\ src_dir = CanonOk(ProjSrc, TRUE)
    /\ Wrote("jit_config.js")
    /\ Occurrences(Serialized, SrcDirToken) = 3
    /\ ~Contains(JitEmbedded, SrcDirToken)

\* the rerun-if-changed lines printed by the current process
Hints == Named(CargoLines, "rerun-if-changed")
\* the install stage of the current process has completed and its compile
\* stage has looked at the stylesheet
CompileStarted == Wrote("tailwind.config.js") /\ pc # "style_in"

\* C13 (as stated): every InstallCompile invocation of a configuration with
\* a custom stylesheet path has registered the rerun-if-changed hint keyed on
\* that path by the time it ends; without a custom path no hint is
\* registered.
C13_HintInEveryInstallCompile ==
    /\ (pipeline = "InstallCompile" /\ cfg.css_path.some /\ pc = "done") =>
          Hints = <<Cargo("rerun-if-changed", cfg.css_path.p)>>
    /\ ~cfg.css_path.some => Hints = <<>>

\* C13 (amended): the hint is registered, once and keyed on the custom path,
\* by exactly the InstallCompile invocations that reach the compile stage,
\* whether or not the path names an existing file; an invocation that ends
\* in the install stage, a JitSetup invocation and an invocation without a
\* custom path register none.
C13_HintIffCompileReached ==
    Hints = IF pipeline = "InstallCompile" /\ cfg.css_path.some /\ CompileStarted
            THEN <<Cargo("rerun-if-changed", cfg.css_path.p)>>
            ELSE <<>>

\* C13 witness: the compile stage registered the hint for a custom path that
\* names no file and then panicked
C13_Witness ==
    /\ pipeline = "InstallCompile" /\ CustomMissing /\ pc = "done"
    /\ Hints = <<Cargo("rerun-if-changed", "custom.css")>>
    /\ outcome = "panic: specified a css path but it does not exists"

\* the filesystem writes of the current process that failed
FailedWrites == SelectSeq(Writes, LAMBDA e : e.arg = "err")
\* ./src could not be canonicalized
CanonicalizeFailed == "src" \in env.read /\ ~env.src.ok
\* an external command of the current process exited unsuccessfully
CommandFailed == \E i \in DOMAIN Cmds : Cmds[i].arg = "failure"

\* C14: every filesystem error met by a build invocation (a failed write or
\* copy into the output directory, a failed canonicalize of ./src) ends the
\* invocation with a returned Io error and no later step; a missing OUT_DIR
\* and an unsuccessful exit of an external command end it with a panic.
C14_FsErrorsReturnedAsIo ==
    /\ (FailedWrites # <<>> \/ CanonicalizeFailed) =>
          /\ pc = "done" /\ outcome = "Err(Io)"
          /\ FailedWrites # <<>> => events[Len(events)] = FailedWrites[1]
    /\ ("OUT_DIR" \in env.read /\ ~env.OUT_DIR.ok) =>
          pc = "done" /\ outcome = "panic: OUT_DIR not provided"
    /\ CommandFailed =>
          /\ pc = "done"
          /\ outcome \in {"panic: could not install tailwind",
                          "panic: could not build styles"}

\* C14 witness: canonicalize of ./src failed and the process panicked with
\* nothing returned to the caller
C14_Witness ==
    /\ CanonicalizeFailed /\ env.OUT_DIR.ok
    /\ pc = "done" /\ outcome = "panic: could not canonicalize"
    /\ events = <<>>

\* OUT_DIR was looked up by the current process and is not set
OutDirAbsent(e) == "OUT_DIR" \in e.read /\ ~e.OUT_DIR.ok

\* C15: a build that finds OUT_DIR absent panics at once, whatever the
\* configuration: the output directory is as it was, nothing was written,
\* invoked or printed, no pipeline was chosen, and neither ./src nor PROFILE
\* was looked at.
C15_AbortBeforeAnyEffect ==
    [][ OutDirAbsent(env') =>
          /\ pc' = "done" /\ outcome' = "panic: OUT_DIR not provided"
          /\ fs' = fs
          /\ events' = <<>>
          /\ pipeline' = "none"
          /\ env'.read = {"OUT_DIR"}
          /\ cfg' = cfg ]_vars

\* C15 witness: a configuration with always() and a custom stylesheet was
\* built without OUT_DIR
C15_Witness ==
    /\ OutDirAbsent(env)
    /\ cfg.always /\ cfg.css_path.some
    /\ pc = "done" /\ outcome = "panic: OUT_DIR not provided"
    /\ events = <<>>

\* the files of the output directory that belong to the InstallCompile
\* pipeline, as one value
InstallCompileFiles(f) ==
    <<f.package_json, f.node_modules, f.tw_config, f.style_in, f.style_out>>

\* C16: within one build invocation the pipelines exclude each other: never
\* both INCLUDE_TAILWIND_PATH and one of the two INCLUDE_TAILWIND_JIT_ lines;
\* an InstallCompile invocation attempts no write of jit_config.js and leaves
\* that file as it was; a JitSetup invocation attempts no write of
\* package.json, tailwind.config.js or style.in.css, invokes no command, and
\* leaves those files and style.css as earlier invocations left them.
C16_PipelinesExclusive ==
    /\ [](/\ ~(/\ Emitted("rustc-env=INCLUDE_TAILWIND_PATH")
               /\ \/ Emitted("rustc-env=INCLUDE_TAILWIND_JIT_CONFIG_PATH")
                  \/ Emitted("rustc-env=INCLUDE_TAILWIND_JIT_URL"))
          /\ pipeline = "InstallCompile" => ~Did(JitSetupNames)
          /\ pipeline = "JitSetup" => ~Did(InstallCompileNames))
    /\ [][ /\ pipeline = "InstallCompile" => fs'.jit_config = fs.jit_config
           /\ pipeline = "JitSetup" =>
                 InstallCompileFiles(fs') = InstallCompileFiles(fs) ]_vars

\* C16 witness: a JitSetup invocation has written jit_config.js into an
\* output directory that holds the files of an earlier InstallCompile one
C16_Witness ==
    /\ pipeline = "JitSetup" /\ pc = "done" /\ outcome = "Ok"
    /\ Wrote("jit_config.js")
    /\ fs.package_json.exists /\ fs.tw_config.exists
    /\ fs.style_in.exists /\ fs.style_out.exists

\* the positions in the current process's log of the install decision (the
\* node_modules check, whichever way it went), of successful writes of a
\* file, and of runs of a command with a result
InstallDecisions ==
    {i \in DOMAIN events :
        events[i] \in {Info("installing tailwind"),
                       Info("node_modules already exists, not installing")}}
At(e) == {i \in DOMAIN events : events[i] = e}
Before(is, j) == \E i \in is : i < j

\* C17: in every InstallCompile invocation the install decision precedes
\* every write of tailwind.config.js; the compile command runs only after
\* tailwind.config.js and then style.in.css were written in that invocation;
\* INCLUDE_TAILWIND_PATH is printed only after the compile command exited
\* successfully in that invocation.
C17_InstallCompileOrder ==
    \A j \in DOMAIN events :
        /\ (events[j].kind = "fs" /\ events[j].name = "tailwind.config.js") =>
              Before(InstallDecisions, j)
        /\ (events[j].kind = "fs" /\ events[j].name = "style.in.css") =>
              Before(At(FsEv("tailwind.config.js", "ok")), j)
        /\ (events[j].kind = "cmd" /\ events[j].name = "npx tailwindcss") =>
              /\ Before(At(FsEv("tailwind.config.js", "ok")), j)
              /\ Before(At(FsEv("style.in.css", "ok")), j)
        /\ (events[j].kind = "cargo"
              /\ events[j].name = "rustc-env=INCLUDE_TAILWIND_PATH") =>
              Before(At(CmdEv("npx tailwindcss", "success")), j)

\* C17 witness: an invocation that installed, wrote both files, compiled and
\* printed the directive, in that order
C17_Witness ==
    /\ pipeline = "InstallCompile" /\ pc = "done" /\ outcome = "Ok"
    /\ Cmds = <<CmdEv("npm install", "success"),
                CmdEv("npx tailwindcss", "success")>>
    /\ Named(Writes, "tailwind.config.js") # <<>>
    /\ Named(Writes, "style.in.css") # <<>>
    /\ events[Len(events)].name = "rustc-env=INCLUDE_TAILWIND_PATH"

NpxRuns == Len(Named(Cmds, "npx tailwindcss"))

\* the stylesheet the previous, successful build took style.in.css from, told
\* from the copy it left
CopiedBefore ==
    CASE fs.style_in.data = DEFAULT_STYLE_CSS -> "default"
      [] fs.style_in.data = CwdData("style.css") -> "root"
      [] OTHER -> "custom"

\* C18: in an InstallCompile invocation that repeats a successful one with
\* the same configuration, every step that does not fail with an I/O error
\* leaves package.json and tailwind.config.js with the content they had, and
\* style.in.css too when the repeat finds the stylesheet the first build
\* copied (the custom one, the root style.css, or neither); the install
\* command is not invoked when node_modules is there at step 2; the compile
\* command is invoked at most once, and exactly once in a repeat that
\* succeeds.
C18_RepeatIdempotent ==
    /\ [](builds > 1 =>
            /\ pc \in {"package_json", "node_modules"} => NpmInstalls(events) = 0
            /\ NpxRuns <= 1
            /\ (pc = "done" /\ outcome = "Ok") => NpxRuns = 1)
    /\ [][ (builds > 1 /\ pc \in InstallCompileSteps) =>
             /\ outcome' # "Err(Io)" =>
                   /\ fs'.package_json = fs.package_json
                   /\ fs'.tw_config = fs.tw_config
                   /\ (pc = "style_in" =>
                          style_source(cfg.css_path, env'.cwd) = CopiedBefore) =>
                         fs'.style_in = fs.style_in
             /\ (pc = "node_modules" => fs.node_modules) =>
                   /\ NpmInstalls(events') = NpmInstalls(events)
                   /\ fs'.node_modules = fs.node_modules ]_vars

\* C18 witness: the repeat of a build with a custom stylesheet and the
\* user's manifest succeeded with one compile and no install
C18_Witness ==
    /\ builds = 2 /\ pc = "done" /\ outcome = "Ok"
    /\ cfg.css_path.some /\ fs.package_json = File(UserPackageJson)
    /\ Cmds = <<CmdEv("npx tailwindcss", "success")>>
    /\ Wrote("tailwind.config.js") /\ Wrote("style.in.css")
    /\ fs.style_in = File(CwdData("custom.css"))

\* the values the builder operations may be given
PathArgs == {None} \cup {Some(q) : q \in CssPaths}
CdnArgs == {DefaultCdnSrc} \cup CdnSrcs
ConfigArgs == {DefaultTailwindConfig} \cup TailwindConfigs
\* the fields in which configuration b differs from configuration a
Changed(a, b) == {f \in DOMAIN a : a[f] # b[f]}

\* C19: applied to any configuration the build script holds while it is
\* being built (it is not changed after that), each builder
\* operation sets its own field and no other, and a second application to
\* the same field overrides the first; no step of a process changes more
\* than one field of the configuration or resets the always flag, and a
\* configuration with the flag set selects InstallCompile under every
\* PROFILE value.
C19_BuilderFrame ==
    /\ [](/\ pc = "config" =>
            /\ \A p \in PathArgs :
                 /\ with_path(cfg, p).css_path = p
                 /\ Changed(cfg, with_path(cfg, p)) \subseteq {"css_path"}
                 /\ \A q \in PathArgs :
                       with_path(with_path(cfg, p), q) = with_path(cfg, q)
            /\ \A s \in CdnArgs :
                 /\ with_cdn_src(cfg, s).cdn_src = s
                 /\ Changed(cfg, with_cdn_src(cfg, s)) \subseteq {"cdn_src"}
                 /\ \A t \in CdnArgs :
                       with_cdn_src(with_cdn_src(cfg, s), t) = with_cdn_src(cfg, t)
            /\ \A c \in ConfigArgs :
                 /\ with_tw_config(cfg, c).tailwind_config = c
                 /\ Changed(cfg, with_tw_config(cfg, c)) \subseteq {"tailwind_config"}
                 /\ \A d \in ConfigArgs :
                       with_tw_config(with_tw_config(cfg, c), d)
                          = with_tw_config(cfg, d)
            /\ always(cfg).always
            /\ Changed(cfg, always(cfg)) \subseteq {"always"}
            /\ always(always(cfg)) = always(cfg)
          /\ cfg.always =>
               /\ \A v \in ProfileVars :
                     build_branch(is_release(v).release, cfg.always)
                        = "InstallCompile"
               /\ pipeline \in {"none", "InstallCompile"})
    /\ [][ pc # "done" =>
             /\ Cardinality(Changed(cfg, cfg')) <= 1
             /\ cfg.always => cfg'.always ]_vars

\* C19 witness: a debug build whose builder chain set all four fields has
\* taken the compiled pipeline
C19_Witness ==
    /\ cfg = [css_path |-> Some("custom.css"), cdn_src |-> "https://my.cdn.com",
              tailwind_config |-> HtmlTailwindConfig, always |-> TRUE]
    /\ "PROFILE" \in env.read /\ env.PROFILE = VarOk("debug")
    /\ pipeline = "InstallCompile"



=============================================================================
